---- MODULE Spec2Model ----
(***************************************************************************)
(* A model of the interactive calculator of src/main.go: the session      *)
(* state of Calculator, the read / evaluate / record loop of              *)
(* Calculator.Run, the command handlers, the operand parser and the       *)
(* evaluator.                                                              *)
(*                                                                         *)
(* Text is modelled as a sequence of one-character strings, so that       *)
(* strings.ToLower, strings.TrimSpace, strings.FieldsFunc,                 *)
(* strconv.ParseFloat and strconv.Atoi are computed, not assumed.          *)
(*                                                                         *)
(* A float64 is modelled as <<"num", n, d>> (the rational n/d in lowest    *)
(* terms, d > 0), <<"inf", s, 1>> (s = 1 or -1) or <<"nan", 0, 1>>.  Every *)
(* arithmetic result is rounded by Float to a rational whose numerator     *)
(* and denominator fit MaxMantissa, the model's stand-in for the 53-bit    *)
(* significand; a magnitude above it overflows to an infinity and one      *)
(* below 1/MaxMantissa underflows to zero.  Signed zero is not modelled.   *)
(* The transcendental library functions (math.Sin, math.Cos, math.Tan,     *)
(* math.Log, math.Sqrt and math.Pow at a non-integer exponent) are         *)
(* rational approximations that keep the library's special cases, zeros    *)
(* and signs.                                                              *)
(***************************************************************************)
EXTENDS Integers, Sequences, FiniteSets, TLC

\* Largest numerator and denominator a modelled float64 holds.
MaxMantissa == 16384

(***************************************************************************)
(* float64                                                                 *)
(***************************************************************************)
Abs(x) == IF x < 0 THEN -x ELSE x

Sign(x) == IF x < 0 THEN -1 ELSE IF x > 0 THEN 1 ELSE 0

RECURSIVE Gcd(_, _)
Gcd(a, b) == IF b = 0 THEN a ELSE Gcd(b, a % b)

NaN == <<"nan", 0, 1>>

Inf(s) == <<"inf", s, 1>>

Num(n, d) == <<"num", n, d>>

Zero == <<"num", 0, 1>>

One == <<"num", 1, 1>>

IsNaN(v) == v[1] = "nan"

IsInf(v) == v[1] = "inf"

IsNum(v) == v[1] = "num"

\* a/d divided through by g.
ReduceBy(a, d, g) == <<"num", a \div g, d \div g>>

\* a/d in lowest terms (a >= 0, d > 0).
Reduce(a, d) == ReduceBy(a, d, Gcd(a, d))

\* a/d scaled down by k, to the nearest.
ScaleBy(a, d, k) == Reduce((a + (k \div 2)) \div k, (d + (k \div 2)) \div k)

\* The float64 nearest r >= 0: a magnitude above MaxMantissa overflows, one
\* below 1/MaxMantissa underflows, and anything else is rounded to a numerator
\* and denominator of at most MaxMantissa.
RoundMagnitude(r) ==
    IF r[2] <= MaxMantissa /\ r[3] <= MaxMantissa THEN r
    ELSE IF (r[2] - 1) \div r[3] >= MaxMantissa THEN <<"inf", 1, 1>>
    ELSE IF (r[3] - 1) \div r[2] >= MaxMantissa THEN <<"num", 0, 1>>
    ELSE ScaleBy(r[2], r[3],
                 ((IF r[2] > r[3] THEN r[2] ELSE r[3]) + MaxMantissa - 1)
                     \div MaxMantissa)

WithSign(neg, v) == IF neg THEN <<v[1], -v[2], v[3]>> ELSE v

\* The float64 nearest a/d (a >= 0, d > 0), negated when neg.
SignedFloat(neg, a, d) == WithSign(neg, RoundMagnitude(Reduce(a, d)))

\* The float64 nearest the rational n/d (d > 0).
Float(n, d) == SignedFloat(n < 0, IF n < 0 THEN -n ELSE n, d)

FromInt(i) == Float(i, 1)

\* The sign of a float64 as -1, 0, 1 (0 for NaN).
FSign(v) == IF v[1] = "nan" THEN 0 ELSE IF v[2] < 0 THEN -1 ELSE IF v[2] > 0 THEN 1 ELSE 0

FNeg(v) == IF v[1] = "nan" THEN v ELSE <<v[1], -v[2], v[3]>>

FAbs(v) == IF v[1] = "nan" \/ v[2] >= 0 THEN v ELSE <<v[1], -v[2], v[3]>>

\* a < b; false when either is NaN.
FLt(a, b) ==
    IF a[1] = "nan" \/ b[1] = "nan" THEN FALSE
    ELSE IF a[1] = "inf" THEN a[2] < 0 /\ ~(b[1] = "inf" /\ b[2] < 0)
    ELSE IF b[1] = "inf" THEN b[2] > 0
    ELSE a[2] * b[3] < b[2] * a[3]

\* a == b; false when either is NaN.
FEq(a, b) == a[1] # "nan" /\ b[1] # "nan" /\ a = b

FLe(a, b) == FLt(a, b) \/ FEq(a, b)

FGt(a, b) == FLt(b, a)

FAdd(a, b) ==
    IF a[1] = "nan" \/ b[1] = "nan" THEN NaN
    ELSE IF a[1] = "inf" THEN (IF b[1] = "inf" /\ b[2] # a[2] THEN NaN ELSE a)
    ELSE IF b[1] = "inf" THEN b
    ELSE Float(a[2] * b[3] + b[2] * a[3], a[3] * b[3])

FSub(a, b) == FAdd(a, FNeg(b))

FMul(a, b) ==
    IF a[1] = "nan" \/ b[1] = "nan" THEN NaN
    ELSE IF a[1] = "inf" \/ b[1] = "inf"
         THEN (IF a[2] = 0 \/ b[2] = 0 THEN NaN
               ELSE <<"inf", IF (a[2] < 0) = (b[2] < 0) THEN 1 ELSE -1, 1>>)
    ELSE Float(a[2] * b[2], a[3] * b[3])

FDiv(a, b) ==
    IF a[1] = "nan" \/ b[1] = "nan" THEN NaN
    ELSE IF a[1] = "inf"
         THEN (IF b[1] = "inf" THEN NaN
               ELSE <<"inf", IF (a[2] < 0) = (b[2] < 0) THEN 1 ELSE -1, 1>>)
    ELSE IF b[1] = "inf" THEN Zero
    ELSE IF b[2] = 0
         THEN (IF a[2] = 0 THEN NaN ELSE <<"inf", IF a[2] < 0 THEN -1 ELSE 1, 1>>)
    ELSE Float(IF b[2] < 0 THEN -(a[2] * b[3]) ELSE a[2] * b[3],
               a[3] * (IF b[2] < 0 THEN -b[2] ELSE b[2]))

\* math.Mod: the remainder of the truncated division, with the dividend's sign.
FMod(a, b) ==
    IF a[1] # "num" \/ b[1] = "nan" THEN NaN
    ELSE IF b[1] = "inf" THEN a
    ELSE IF b[2] = 0 THEN NaN
    ELSE SignedFloat(a[2] < 0,
                     ((IF a[2] < 0 THEN -a[2] ELSE a[2]) * b[3])
                         % ((IF b[2] < 0 THEN -b[2] ELSE b[2]) * a[3]),
                     a[3] * b[3])

IsInteger(v) == v[1] = "num" /\ v[3] = 1

IsOddInteger(v) == v[1] = "num" /\ v[3] = 1 /\ v[2] % 2 = 1

\* The floor of a finite float64, as an integer.
Floor(v) == v[2] \div v[3]

\* h squared, times x when k is odd.
PowStep(h, x, k) == FMul(FMul(h, h), IF k % 2 = 0 THEN One ELSE x)

\* x to the natural power k, by squaring.
RECURSIVE PowNat(_, _)
PowNat(x, k) == IF k = 0 THEN One ELSE PowStep(PowNat(x, k \div 2), x, k)

\* whole = x^f, carried on to x^y for f = floor(y) <= y < f + 1 by the factor
\* 1 + (y - f) (x - 1), which is 1 at an integer y.
PowFraction(whole, x, y, f) ==
    FMul(whole, FAdd(One, FMul(FSub(y, <<"num", f, 1>>), FSub(x, One))))

\* x to the finite power y, for finite x > 0.
PowPos(x, y) ==
    PowFraction(IF y[2] >= 0 THEN PowNat(x, Floor(y))
                ELSE PowNat(FDiv(One, x), -Floor(y)),
                x, y, Floor(y))

\* math.Pow, with its special cases.
FPow(x, y) ==
    IF FEq(y, Zero) \/ FEq(x, One) THEN One
    ELSE IF FEq(y, One) THEN x
    ELSE IF x[1] = "nan" \/ y[1] = "nan" THEN NaN
    ELSE IF FEq(x, Zero)
         THEN (IF y[2] < 0 THEN <<"inf", 1, 1>> ELSE Zero)
    ELSE IF y[1] = "inf"
         THEN (IF x = <<"num", -1, 1>> THEN One
               ELSE IF FLt(FAbs(x), One) = (y[2] > 0) THEN Zero ELSE <<"inf", 1, 1>>)
    ELSE IF x[1] = "inf"
         THEN (IF y[2] < 0 THEN Zero
               ELSE IF x[2] < 0 /\ IsOddInteger(y) THEN <<"inf", -1, 1>>
               ELSE <<"inf", 1, 1>>)
    ELSE IF x[2] < 0 /\ ~IsInteger(y) THEN NaN
    ELSE WithSign(x[2] < 0 /\ IsOddInteger(y), PowPos(FAbs(x), y))

\* math.Pi and math.E as modelled float64 values.
Pi == <<"num", 22, 7>>

HalfPi == <<"num", 11, 7>>

TwoPi == <<"num", 44, 7>>

E == <<"num", 19, 7>>

\* 16 u / (5 Pi^2 - 4 u), for u = t (Pi - t).
SinOf(u) ==
    FDiv(FMul(<<"num", 16, 1>>, u),
         FSub(FMul(<<"num", 5, 1>>, FMul(Pi, Pi)), FMul(<<"num", 4, 1>>, u)))

\* sin t for 0 <= t <= Pi: 0 at 0 and Pi, 1 at Pi/2.
SinHalf(t) == SinOf(FMul(t, FSub(Pi, t)))

\* sin p for 0 <= p < 2 Pi.
SinTurn(p) ==
    WithSign(FLt(Pi, p), SinHalf(IF FLt(Pi, p) THEN FSub(p, Pi) ELSE p))

\* sin r for -2 Pi < r < 2 Pi.
SinReduced(r) == SinTurn(IF r[2] < 0 THEN FAdd(r, TwoPi) ELSE r)

\* math.Sin: NaN at an infinity or NaN, else by reduction to [0, Pi].
Sin(x) == IF x[1] # "num" THEN NaN ELSE SinReduced(FMod(x, TwoPi))

\* math.Cos.
Cos(x) == IF x[1] # "num" THEN NaN ELSE Sin(FAdd(x, HalfPi))

\* math.Tan.
Tan(x) == FDiv(Sin(x), Cos(x))

RECURSIVE IsqrtIter(_, _)
IsqrtIter(m, x) ==
    IF (x + m \div x) \div 2 >= x THEN x ELSE IsqrtIter(m, (x + m \div x) \div 2)

\* The integer square root of m >= 0.
Isqrt(m) == IF m = 0 THEN 0 ELSE IsqrtIter(m, m)

\* One Newton step towards the square root of v from s.
SqrtStep(v, s) == FDiv(FAdd(s, FDiv(v, s)), <<"num", 2, 1>>)

\* math.Sqrt: exact at the square of a rational, one Newton step from the
\* integer square root elsewhere.
Sqrt(v) ==
    IF v[1] = "nan" \/ v[2] < 0 THEN NaN
    ELSE IF v[1] = "inf" \/ v[2] = 0 THEN v
    ELSE SqrtStep(v, Float(Isqrt(v[2] * v[3]), v[3]))

\* math.Log: 2 (v - 1) / (v + 1) for finite v > 0, which is 0 at 1, negative
\* below 1 and positive above.
Log(v) ==
    IF v[1] = "nan" \/ v[2] < 0 THEN NaN
    ELSE IF v[2] = 0 THEN <<"inf", -1, 1>>
    ELSE IF v[1] = "inf" THEN v
    ELSE FDiv(FMul(<<"num", 2, 1>>, FSub(v, One)), FAdd(v, One))

\* |c| < 1e-12, the comparison of calculateUnary's tan case: for c = n/d,
\* |n| * 10^12 < d, computed as |n| <= ((d - 1) div 10^6) div 10^6.
BelowTanEps(c) ==
    c[1] = "num"
    /\ (IF c[2] < 0 THEN -c[2] ELSE c[2]) <= ((c[3] - 1) \div 1000000) \div 1000000

(***************************************************************************)
(* Text: a string is a sequence of one-character strings.                  *)
(***************************************************************************)
UpperChars ==
    <<"A", "B", "C", "D", "E", "F", "G", "H", "I", "J", "K", "L", "M",
      "N", "O", "P", "Q", "R", "S", "T", "U", "V", "W", "X", "Y", "Z">>

LowerChars ==
    <<"a", "b", "c", "d", "e", "f", "g", "h", "i", "j", "k", "l", "m",
      "n", "o", "p", "q", "r", "s", "t", "u", "v", "w", "x", "y", "z">>

LowerChar(c) ==
    IF \E i \in 1..26 : UpperChars[i] = c
    THEN LowerChars[CHOOSE i \in 1..26 : UpperChars[i] = c]
    ELSE c

\* strings.ToLower
ToLower(s) == [i \in 1..Len(s) |-> LowerChar(s[i])]

\* strings.EqualFold, on letters and ASCII.
EqualFold(s, t) == ToLower(s) = ToLower(t)

IsSpace(c) == c \in {" ", "\t", "\n", "\r"}

RECURSIVE TrimLeft(_)
TrimLeft(s) == IF s # <<>> /\ IsSpace(Head(s)) THEN TrimLeft(Tail(s)) ELSE s

RECURSIVE TrimRight(_)
TrimRight(s) ==
    IF s # <<>> /\ IsSpace(s[Len(s)]) THEN TrimRight(SubSeq(s, 1, Len(s) - 1)) ELSE s

\* strings.TrimSpace
TrimSpace(s) == TrimRight(TrimLeft(s))

\* The separator function parseNumbersLine hands to strings.FieldsFunc.
IsSeparator(r) == r = " " \/ r = "," \/ r = "\t"

\* strings.FieldsFunc(s, IsSeparator): the maximal runs of non-separators.
\* cur is the field being read.
RECURSIVE FieldsFrom(_, _)
FieldsFrom(s, cur) ==
    IF s = <<>> THEN (IF cur = <<>> THEN <<>> ELSE <<cur>>)
    ELSE IF IsSeparator(Head(s))
         THEN (IF cur = <<>> THEN FieldsFrom(Tail(s), <<>>)
               ELSE <<cur>> \o FieldsFrom(Tail(s), <<>>))
    ELSE FieldsFrom(Tail(s), Append(cur, Head(s)))

FieldsFunc(s) == FieldsFrom(s, <<>>)

DigitChars == <<"0", "1", "2", "3", "4", "5", "6", "7", "8", "9">>

IsDigit(c) == \E i \in 1..10 : DigitChars[i] = c

DigitVal(c) == (CHOOSE i \in 1..10 : DigitChars[i] = c) - 1

\* The index after the run of digits of s that starts at i.
RECURSIVE ScanDigits(_, _)
ScanDigits(s, i) ==
    IF i <= Len(s) /\ IsDigit(s[i]) THEN ScanDigits(s, i + 1) ELSE i

\* The number the digit string s spells, after acc.
RECURSIVE DigitsValue(_, _)
DigitsValue(s, acc) ==
    IF s = <<>> THEN acc ELSE DigitsValue(Tail(s), 10 * acc + DigitVal(Head(s)))

Ok(v) == [ok |-> TRUE, val |-> v, err |-> ""]

Fail(e) == [ok |-> FALSE, val |-> <<"num", 0, 1>>, err |-> e]

(***************************************************************************)
(* strconv.ParseFloat(s, 64) on decimal literals ([sign] digits [. digits] *)
(* [e [sign] digits]), inf, infinity and nan; a value out of range is an   *)
(* error.  Hexadecimal literals and digit-separating underscores are       *)
(* outside the model: they are rejected here.  The stages below follow     *)
(* the scan: b is the text after the sign, i1 the index after the integer  *)
(* digits, f0 the index of the first fraction digit, i2 the index after    *)
(* the fraction digits, e1 the index of the first exponent digit and end   *)
(* the index after the literal.                                            *)
(***************************************************************************)
ParseInRange(neg, mag) ==
    IF mag[1] = "inf" THEN Fail("range") ELSE Ok(WithSign(neg, mag))

\* mant * 10^scale
ParseScaled(neg, mant, scale) ==
    ParseInRange(neg,
        IF mant = 0 THEN Zero
        ELSE IF scale >= 0 THEN FMul(FromInt(mant), PowNat(<<"num", 10, 1>>, scale))
        ELSE FDiv(FromInt(mant), PowNat(<<"num", 10, 1>>, -scale)))

ParseFinish(neg, b, i1, f0, i2, end, expo) ==
    IF (i1 - 1) + (i2 - f0) = 0 \/ end # Len(b) + 1 THEN Fail("syntax")
    ELSE ParseScaled(neg,
                     DigitsValue(SubSeq(b, 1, i1 - 1) \o SubSeq(b, f0, i2 - 1), 0),
                     expo - (i2 - f0))

ParseExponentDigits(neg, b, i1, f0, i2, e1, i3) ==
    ParseFinish(neg, b, i1, f0, i2,
                IF i3 = e1 THEN 0 ELSE i3,
                IF b[e1 - 1] = "-" THEN -DigitsValue(SubSeq(b, e1, i3 - 1), 0)
                ELSE DigitsValue(SubSeq(b, e1, i3 - 1), 0))

ParseExponentSign(neg, b, i1, f0, i2, e1) ==
    ParseExponentDigits(neg, b, i1, f0, i2, e1, ScanDigits(b, e1))

ParseFractionEnd(neg, b, i1, f0, i2) ==
    IF i2 <= Len(b) /\ b[i2] \in {"e", "E"}
    THEN ParseExponentSign(neg, b, i1, f0, i2,
             IF i2 + 1 <= Len(b) /\ b[i2 + 1] \in {"+", "-"} THEN i2 + 2 ELSE i2 + 1)
    ELSE ParseFinish(neg, b, i1, f0, i2, i2, 0)

ParseIntegerEnd(neg, b, i1) ==
    ParseFractionEnd(neg, b, i1,
                     IF i1 <= Len(b) /\ b[i1] = "." THEN i1 + 1 ELSE i1,
                     ScanDigits(b, IF i1 <= Len(b) /\ b[i1] = "." THEN i1 + 1 ELSE i1))

ParseUnsigned(neg, hasSign, b, low) ==
    IF low = <<"i", "n", "f">> \/ low = <<"i", "n", "f", "i", "n", "i", "t", "y">>
    THEN Ok(<<"inf", IF neg THEN -1 ELSE 1, 1>>)
    ELSE IF ~hasSign /\ low = <<"n", "a", "n">> THEN Ok(NaN)
    ELSE ParseIntegerEnd(neg, b, ScanDigits(b, 1))

ParseSigned(hasSign, s) ==
    ParseUnsigned(hasSign /\ s[1] = "-", hasSign,
                  IF hasSign THEN Tail(s) ELSE s,
                  ToLower(IF hasSign THEN Tail(s) ELSE s))

ParseFloat(s) == ParseSigned(s # <<>> /\ s[1] \in {"+", "-"}, s)

AtoiDigits(neg, b) ==
    IF b = <<>> \/ ScanDigits(b, 1) # Len(b) + 1 THEN [ok |-> FALSE, val |-> 0]
    ELSE [ok |-> TRUE, val |-> IF neg THEN -DigitsValue(b, 0) ELSE DigitsValue(b, 0)]

\* strconv.Atoi: [sign] digits.
Atoi(s) ==
    IF s # <<>> /\ s[1] \in {"+", "-"} THEN AtoiDigits(s[1] = "-", Tail(s))
    ELSE AtoiDigits(FALSE, s)

(***************************************************************************)
(* fmt.Sprintf: %g and %.*f of a float64, as text.  A finite value is      *)
(* first turned into decimal digits and a decimal point position, as       *)
(* strconv does: the value is 0.d1 d2 ... dn * 10^dp.                       *)
(***************************************************************************)
\* The decimal digits of the natural i, most significant first (none for 0).
RECURSIVE IntDigits(_)
IntDigits(i) == IF i = 0 THEN <<>> ELSE Append(IntDigits(i \div 10), i % 10)

\* The first k digits after the point of rem/d (rem < d).
RECURSIVE FracDigits(_, _, _)
FracDigits(rem, d, k) ==
    IF k = 0 THEN <<>>
    ELSE <<(10 * rem) \div d>> \o FracDigits((10 * rem) % d, d, k - 1)

\* What is left of rem/d after those k digits.
RECURSIVE FracRem(_, _, _)
FracRem(rem, d, k) == IF k = 0 THEN rem ELSE FracRem((10 * rem) % d, d, k - 1)

\* The number of zero digits rem/d has right after the point (0 < rem < d).
RECURSIVE LeadingZeros(_, _)
LeadingZeros(rem, d) ==
    IF 10 * rem >= d THEN 0 ELSE 1 + LeadingZeros(10 * rem, d)

AllNines(ds) == \A i \in 1..Len(ds) : ds[i] = 9

\* ds plus one unit in its last place, for ds not all nines.
RECURSIVE IncDigits(_)
IncDigits(ds) ==
    IF ds[Len(ds)] = 9
    THEN Append(IncDigits(SubSeq(ds, 1, Len(ds) - 1)), 0)
    ELSE [ds EXCEPT ![Len(ds)] = @ + 1]

RECURSIVE StripZeros(_)
StripZeros(ds) ==
    IF ds # <<>> /\ ds[Len(ds)] = 0 THEN StripZeros(SubSeq(ds, 1, Len(ds) - 1)) ELSE ds

\* Whether digits ds followed by the remainder rem/d round up: to the nearest,
\* ties to even.
RoundsUp(ds, rem, d) ==
    2 * rem > d \/ (2 * rem = d /\ ds # <<>> /\ ds[Len(ds)] % 2 = 1)

\* Digits ds at point position dp, rounded given the remainder rem/d that
\* follows them.
RoundDigits(ds, dp, rem, d) ==
    IF ~RoundsUp(ds, rem, d) THEN [d |-> ds, dp |-> dp]
    ELSE IF AllNines(ds)
         THEN [d |-> <<1>> \o [i \in 1..Len(ds) |-> 0], dp |-> dp + 1]
    ELSE [d |-> IncDigits(ds), dp |-> dp]

FixedFrom(a, d, prec, int) ==
    RoundDigits(int \o FracDigits(a % d, d, prec), Len(int),
                FracRem(a % d, d, prec), d)

\* The digits of |v| kept to prec places after the point (strconv's 'f').
FixedDigits(v, prec) ==
    FixedFrom(IF v[2] < 0 THEN -v[2] ELSE v[2], v[3], prec,
              IntDigits((IF v[2] < 0 THEN -v[2] ELSE v[2]) \div v[3]))

Stripped(g) == [d |-> StripZeros(g.d), dp |-> g.dp]

\* Ten significant digits of a/d, whose integer digits are int and which has
\* z zeros between the point and its first digit.
ShortestAt(a, d, int, z) ==
    Stripped(RoundDigits(
        SubSeq(int \o FracDigits(a % d, d, z + 10 - Len(int)), z + 1, z + 10),
        Len(int) - z,
        FracRem(a % d, d, z + 10 - Len(int)), d))

ShortestFrom(a, d, int) ==
    ShortestAt(a, d, int, IF int # <<>> THEN 0 ELSE LeadingZeros(a, d))

\* The digits of |v| that tell it from every other float64 (strconv's
\* shortest form): ten significant digits separate any two modelled values;
\* trailing zeros are dropped.
ShortestDigits(v) ==
    IF v[2] = 0 THEN [d |-> <<>>, dp |-> 0]
    ELSE ShortestFrom(IF v[2] < 0 THEN -v[2] ELSE v[2], v[3],
                      IntDigits((IF v[2] < 0 THEN -v[2] ELSE v[2]) \div v[3]))

DigitText(ds) == [i \in 1..Len(ds) |-> DigitChars[ds[i] + 1]]

\* Digit i of the digits record g, 0 beyond either end.
DigitAt(g, i) == IF i >= 1 /\ i <= Len(g.d) THEN g.d[i] ELSE 0

\* strconv's %f layout: integer part, then prec digits after the point.
FmtF(neg, g, prec) ==
    (IF neg THEN <<"-">> ELSE <<>>)
    \o (IF g.dp > 0 THEN DigitText([i \in 1..g.dp |-> DigitAt(g, i)]) ELSE <<"0">>)
    \o (IF prec > 0
        THEN <<".">> \o DigitText([i \in 1..prec |-> DigitAt(g, g.dp + i)])
        ELSE <<>>)

\* The exponent of %e: at least two digits.
ExponentText(ed) ==
    DigitText(IF Len(ed) = 0 THEN <<0, 0>> ELSE IF Len(ed) = 1 THEN <<0>> \o ed ELSE ed)

\* strconv's %e layout: d.ddde+xx.
FmtE(neg, g, prec) ==
    (IF neg THEN <<"-">> ELSE <<>>)
    \o DigitText(<<DigitAt(g, 1)>>)
    \o (IF prec > 0
        THEN <<".">> \o DigitText([i \in 1..prec |-> DigitAt(g, i + 1)])
        ELSE <<>>)
    \o <<"e", IF g.d # <<>> /\ g.dp - 1 < 0 THEN "-" ELSE "+">>
    \o ExponentText(IntDigits(IF g.d = <<>> THEN 0
                              ELSE IF g.dp - 1 < 0 THEN 1 - g.dp ELSE g.dp - 1))

\* NaN and the infinities, as fmt prints them under %g and %f.
SpecialText(v) ==
    IF v[1] = "nan" THEN <<"N", "a", "N">>
    ELSE IF v[2] > 0 THEN <<"+", "I", "n", "f">> ELSE <<"-", "I", "n", "f">>

\* %g of the shortest digits g: %e when the exponent is below -4 or at least 6.
LayoutG(neg, g) ==
    IF g.dp - 1 < -4 \/ g.dp - 1 >= 6
    THEN FmtE(neg, g, IF Len(g.d) > 0 THEN Len(g.d) - 1 ELSE 0)
    ELSE FmtF(neg, g, IF Len(g.d) > g.dp THEN Len(g.d) - g.dp ELSE 0)

\* fmt.Sprintf("%g", v)
SprintfG(v) ==
    IF v[1] # "num" THEN SpecialText(v) ELSE LayoutG(v[2] < 0, ShortestDigits(v))

\* fmt.Sprintf("%.*f", prec, v)
SprintfF(prec, v) ==
    IF v[1] # "num" THEN SpecialText(v) ELSE FmtF(v[2] < 0, FixedDigits(v, prec), prec)

(***************************************************************************)
(* Operators and commands                                                  *)
(***************************************************************************)
CommandNames ==
    { <<"h", "e", "l", "p">>, <<"h", "i", "s", "t", "o", "r", "y">>,
      <<"d", "e", "g", "r", "e", "e", "s">>, <<"r", "a", "d", "i", "a", "n", "s">>,
      <<"e", "x", "p", "o", "r", "t">>, <<"c", "l", "e", "a", "r">>,
      <<"m", "o", "d", "e">>, <<"p", "r", "e", "c", "i", "s", "i", "o", "n">>,
      <<"s", "t", "a", "t", "s">>, <<"o", "p", "s">> }

isCommand(cmd) == cmd \in CommandNames

UnaryOperators ==
    { <<"s", "i", "n">>, <<"c", "o", "s">>, <<"t", "a", "n">>,
      <<"s", "q", "r", "t">>, <<"l", "o", "g">> }

BinaryOperators == { <<"+">>, <<"-">>, <<"*">>, <<"/">>, <<"^">>, <<"%">> }

\* The operator a line names, <<>> (the empty string) when it names none.
normalizeOperator(op) ==
    IF op \in BinaryOperators \cup UnaryOperators THEN op
    ELSE IF op = <<"p", "o", "w">> THEN <<"^">>
    ELSE IF op = <<"m", "o", "d">> THEN <<"%">>
    ELSE IF op = <<"l", "n">> THEN <<"l", "o", "g">>
    ELSE <<>>

isUnaryOperator(op) == op \in UnaryOperators

(***************************************************************************)
(* Calculation                                                             *)
(***************************************************************************)
toRadians(v, degrees) ==
    IF degrees THEN FDiv(FMul(v, Pi), <<"num", 180, 1>>) ELSE v

\* A faulty calculateBinary without the tests of the divisor.
calculateBinaryUnchecked(op, a, b) ==
    IF op = <<"+">> THEN Ok(FAdd(a, b))
    ELSE IF op = <<"-">> THEN Ok(FSub(a, b))
    ELSE IF op = <<"*">> THEN Ok(FMul(a, b))
    ELSE IF op = <<"/">> THEN Ok(FDiv(a, b))
    ELSE IF op = <<"^">> THEN Ok(FPow(a, b))
    ELSE IF op = <<"%">> THEN Ok(FMod(a, b))
    ELSE Fail("unknown operator")

calculateBinary(op, a, b) ==
    IF op = <<"+">> THEN Ok(FAdd(a, b))
    ELSE IF op = <<"-">> THEN Ok(FSub(a, b))
    ELSE IF op = <<"*">> THEN Ok(FMul(a, b))
    ELSE IF op = <<"/">>
         THEN (IF FEq(b, Zero) THEN Fail("division by zero") ELSE Ok(FDiv(a, b)))
    ELSE IF op = <<"^">> THEN Ok(FPow(a, b))
    ELSE IF op = <<"%">>
         THEN (IF FEq(b, Zero) THEN Fail("modulo by zero") ELSE Ok(FMod(a, b)))
    ELSE Fail("unknown operator")

\* A faulty calculateUnary whose sqrt turns zero away as well.
calculateRadiansStrict(op, v, rad) ==
    IF op = <<"s", "i", "n">> THEN Ok(Sin(rad))
    ELSE IF op = <<"c", "o", "s">> THEN Ok(Cos(rad))
    ELSE IF op = <<"t", "a", "n">>
         THEN (IF BelowTanEps(FAbs(Cos(rad)))
               THEN Fail("tan undefined for this value")
               ELSE Ok(Tan(rad)))
    ELSE IF op = <<"s", "q", "r", "t">>
         THEN (IF FLe(v, Zero) THEN Fail("sqrt of negative number") ELSE Ok(Sqrt(v)))
    ELSE IF op = <<"l", "o", "g">>
         THEN (IF FLe(v, Zero) THEN Fail("log domain error") ELSE Ok(Log(v)))
    ELSE Fail("unknown unary operator")

\* calculateUnary after rad := toRadians(v, degrees).
calculateRadians(op, v, rad) ==
    IF op = <<"s", "i", "n">> THEN Ok(Sin(rad))
    ELSE IF op = <<"c", "o", "s">> THEN Ok(Cos(rad))
    ELSE IF op = <<"t", "a", "n">>
         THEN (IF BelowTanEps(FAbs(Cos(rad)))
               THEN Fail("tan undefined for this value")
               ELSE Ok(Tan(rad)))
    ELSE IF op = <<"s", "q", "r", "t">>
         THEN (IF FLt(v, Zero) THEN Fail("sqrt of negative number") ELSE Ok(Sqrt(v)))
    ELSE IF op = <<"l", "o", "g">>
         THEN (IF FLe(v, Zero) THEN Fail("log domain error") ELSE Ok(Log(v)))
    ELSE Fail("unknown unary operator")

calculateUnary(op, v, degrees) == calculateRadians(op, v, toRadians(v, degrees))

\* The loop of calculateMany from index i (1-based) with the running result;
\* calculateStep is the loop body after r := calculateBinary(op, result, nums[i]).
RECURSIVE calculateLoop(_, _, _, _)
RECURSIVE calculateStep(_, _, _, _)
calculateStep(op, r, nums, i) ==
    IF ~r.ok THEN Fail(r.err) ELSE calculateLoop(op, r.val, nums, i + 1)

\* A faulty loop that returns after its first pass.
calculateLoopOnce(op, result, nums, i) ==
    IF i > Len(nums) THEN Ok(result) ELSE calculateBinary(op, result, nums[i])

calculateLoop(op, result, nums, i) ==
    IF i > Len(nums) THEN Ok(result)
    ELSE calculateStep(op, calculateBinary(op, result, nums[i]), nums, i)

\* nums[0] of an empty slice is a run-time panic.
calculateMany(op, nums, degrees) ==
    IF nums = <<>> THEN Fail("panic: index out of range")
    ELSE IF isUnaryOperator(op) THEN calculateUnary(op, nums[1], degrees)
    ELSE calculateLoop(op, nums[1], nums, 2)

(***************************************************************************)
(* Input handling                                                          *)
(***************************************************************************)
\* The loop of parseNumbersLine over the fields, values being what is parsed
\* so far; parseNumber is the loop body after val, err := strconv.ParseFloat.
RECURSIVE parseFields(_, _, _, _)
RECURSIVE parseNumber(_, _, _, _, _)
parseNumber(val, fields, values, last, hasLast) ==
    IF ~val.ok THEN [ok |-> FALSE, vals |-> <<>>, err |-> "invalid number"]
    ELSE parseFields(Tail(fields), Append(values, val.val), last, hasLast)

\* A faulty loop that hands out last without looking at hasLast.
parseFieldsUnguarded(fields, values, last, hasLast) ==
    IF fields = <<>> THEN [ok |-> TRUE, vals |-> values, err |-> ""]
    ELSE IF ToLower(Head(fields)) \in {<<"a", "n", "s">>, <<"l", "a", "s", "t">>}
         THEN parseFields(Tail(fields), Append(values, last), last, hasLast)
    ELSE IF ToLower(Head(fields)) = <<"p", "i">>
         THEN parseFields(Tail(fields), Append(values, Pi), last, hasLast)
    ELSE IF ToLower(Head(fields)) = <<"e">>
         THEN parseFields(Tail(fields), Append(values, E), last, hasLast)
    ELSE parseNumber(ParseFloat(Head(fields)), fields, values, last, hasLast)

parseFields(fields, values, last, hasLast) ==
    IF fields = <<>> THEN [ok |-> TRUE, vals |-> values, err |-> ""]
    ELSE IF ToLower(Head(fields)) \in {<<"a", "n", "s">>, <<"l", "a", "s", "t">>}
         THEN (IF ~hasLast
               THEN [ok |-> FALSE, vals |-> <<>>, err |-> "no previous result"]
               ELSE parseFields(Tail(fields), Append(values, last), last, hasLast))
    ELSE IF ToLower(Head(fields)) = <<"p", "i">>
         THEN parseFields(Tail(fields), Append(values, Pi), last, hasLast)
    ELSE IF ToLower(Head(fields)) = <<"e">>
         THEN parseFields(Tail(fields), Append(values, E), last, hasLast)
    ELSE parseNumber(ParseFloat(Head(fields)), fields, values, last, hasLast)

\* parseNumbersLine after fields := strings.FieldsFunc(line, ...).
parseLineFields(fields, last, hasLast) ==
    IF fields = <<>> THEN [ok |-> FALSE, vals |-> <<>>, err |-> "empty input"]
    ELSE parseFields(fields, <<>>, last, hasLast)

parseNumbersLine(line, last, hasLast) ==
    parseLineFields(FieldsFunc(line), last, hasLast)

\* A faulty validateOperandCount that lets every count through.
acceptAnyCount(op, nums) == [ok |-> TRUE, vals |-> nums, err |-> ""]

validateOperandCount(op, nums) ==
    IF isUnaryOperator(op)
    THEN (IF Len(nums) # 1
          THEN [ok |-> FALSE, vals |-> <<>>,
                err |-> "this operator requires exactly one operand"]
          ELSE [ok |-> TRUE, vals |-> nums, err |-> ""])
    ELSE IF Len(nums) < 2
         THEN [ok |-> FALSE, vals |-> <<>>, err |-> "at least two operands required"]
    ELSE IF op \in {<<"-">>, <<"/">>, <<"%">>, <<"^">>} /\ Len(nums) # 2
         THEN [ok |-> FALSE, vals |-> <<>>,
               err |-> "this operator supports exactly two operands"]
    ELSE [ok |-> TRUE, vals |-> nums, err |-> ""]

(***************************************************************************)
(* Utilities                                                               *)
(***************************************************************************)
\* The " op num" pieces of formatExpression from index i.
RECURSIVE formatTail(_, _, _)
formatTail(nums, op, i) ==
    IF i > Len(nums) THEN <<>>
    ELSE <<" ">> \o op \o <<" ">> \o SprintfG(nums[i]) \o formatTail(nums, op, i + 1)

formatExpression(nums, op) ==
    IF isUnaryOperator(op) THEN op \o <<"(">> \o SprintfG(nums[1]) \o <<")">>
    ELSE SprintfG(nums[1]) \o formatTail(nums, op, 2)

formatResult(precision, value) ==
    IF precision < 0 THEN SprintfG(value) ELSE SprintfF(precision, value)

\* The history line Run records: fmt.Sprintf("%s = %s", expr, result).
historyEntry(expr, text) == expr \o <<" ", "=", " ">> \o text


\* The text of the natural i, "0" for zero.
IntText(i) == IF i = 0 THEN <<"0">> ELSE DigitText(IntDigits(i))

\* strings.Join(lines, "\n")
RECURSIVE Join(_)
Join(lines) ==
    IF lines = <<>> THEN <<>>
    ELSE IF Len(lines) = 1 THEN lines[1]
    ELSE lines[1] \o <<"\n">> \o Join(Tail(lines))

\* The lines printHistory prints after its heading: " %2d) %s".
historyLines(hist) ==
    [i \in 1..Len(hist) |->
        <<" ">> \o (IF i < 10 THEN <<" ">> ELSE <<>>) \o IntText(i) \o <<")", " ">>
        \o hist[i]]

\* The loops of printStats over results[i..]: the least, the greatest, the sum.
\* printStats keeping the greater value where it means to keep the lesser.
RECURSIVE statsMinSwapped(_, _, _)
statsMinSwapped(rs, i, min) ==
    IF i > Len(rs) THEN min
    ELSE statsMinSwapped(rs, i + 1, IF FGt(rs[i], min) THEN rs[i] ELSE min)

RECURSIVE statsMin(_, _, _)
statsMin(rs, i, min) ==
    IF i > Len(rs) THEN min
    ELSE statsMin(rs, i + 1, IF FLt(rs[i], min) THEN rs[i] ELSE min)

RECURSIVE statsMax(_, _, _)
statsMax(rs, i, max) ==
    IF i > Len(rs) THEN max
    ELSE statsMax(rs, i + 1, IF FGt(rs[i], max) THEN rs[i] ELSE max)

RECURSIVE statsSum(_, _, _)
statsSum(rs, i, sum) ==
    IF i > Len(rs) THEN sum ELSE statsSum(rs, i + 1, FAdd(sum, rs[i]))

\* What printStats reports for a non-empty results.
statsOf(rs) ==
    [count |-> Len(rs),
     min |-> statsMin(rs, 1, rs[1]),
     max |-> statsMax(rs, 1, rs[1]),
     avg |-> FDiv(statsSum(rs, 1, Zero), FromInt(Len(rs)))]


(***************************************************************************)
(* The session                                                             *)
(***************************************************************************)
\* The most lines (or read failures) the input stream delivers before it ends.
MaxInput == 6

\* The most operands one round collects.
MaxOperands == 3

VARIABLES
    history,      \* Calculator.history: the recorded lines, oldest first
    results,      \* Calculator.results: the recorded values, oldest first
    lastResult,   \* Calculator.lastResult
    hasLast,      \* Calculator.hasLast
    useDegrees,   \* Calculator.useDegrees
    precision,    \* Calculator.precision: -1 is auto
    pc,           \* the blocking read the program waits at, or "done"
    op,           \* Run's op: the operator of the round under way
    numbers,      \* readNumbers' numbers: the operands collected so far
    input,        \* the lines the input stream may still deliver
    read,         \* how the last readLine returned: "line", "eof" or "error"
    typed,        \* the text the last readLine returned
    out,          \* what the last step printed
    call,         \* the call of calculateMany the last step made, if any
    wrote         \* the call of os.WriteFile the last step made, if any

session == <<history, results, lastResult, hasLast, useDegrees, precision>>

vars == <<history, results, lastResult, hasLast, useDegrees, precision,
          pc, op, numbers, input, read, typed, out, call, wrote>>

\* Lines typed at the operator prompt, as the stream delivers them.
OperatorInputs ==
    { <<"+">>, <<"-">>, <<"*">>, <<"/">>, <<"^">>, <<"%">>,
      <<"s", "i", "n">>, <<"c", "o", "s">>, <<"T", "a", "n">>,
      <<"s", "q", "r", "t">>, <<"l", "o", "g">>,
      <<"p", "o", "w">>, <<"M", "O", "D">>, <<"l", "n">>,
      <<"h", "e", "l", "p">>, <<"h", "i", "s", "t", "o", "r", "y">>,
      <<"d", "e", "g", "r", "e", "e", "s">>, <<"r", "a", "d", "i", "a", "n", "s">>,
      <<"e", "x", "p", "o", "r", "t">>, <<" ", "C", "l", "e", "a", "r", " ">>,
      <<"m", "o", "d", "e">>, <<"p", "r", "e", "c", "i", "s", "i", "o", "n">>,
      <<"s", "t", "a", "t", "s">>, <<"o", "p", "s">>,
      <<"e", "x", "i", "t">>, <<"E", "x", "i", "t">>,
      <<"q", "u", "i", "t">>, <<>>, <<"2">> }

\* Lines typed at the operand prompt.
NumberInputs ==
    { <<>>, <<" ">>,
      <<"0">>, <<"-", "4">>, <<"9", "0">>,
      <<"a", "n", "s">>, <<"L", "a", "s", "t">>,
      <<"e", "x", "i", "t">>, <<",">>,
      <<"2", " ", "3", ",", "5">>, <<"\t", "2", ",", " ", "x">> }

\* Lines typed at the precision prompt.
PrecisionInputs ==
    { <<>>, <<"a", "u", "t", "o">>, <<"A", "U", "T", "O">>,
      <<"0">>, <<"2">>, <<"+", "2">>, <<"1", "0">>, <<"1", "1">>, <<"-", "1">>,
      <<"2", ".", "5">>, <<"t", "w", "o">> }

\* Lines typed at the export prompt.
ExportInputs == { <<>>, <<"o", "u", "t">> }

\* readLine's text for a delivered line.
readLine(raw) == TrimSpace(raw)

Printed(msg, err, text) == [msg |-> msg, err |-> err, text |-> text]

NoCall == [called |-> FALSE, op |-> <<>>, nums |-> <<>>]

NoWrite == [called |-> FALSE, path |-> <<>>, content |-> <<>>, ok |-> FALSE]

\* NewCalculator, and Run up to its first read.
Init ==
    /\ history = <<>>
    /\ results = <<>>
    /\ lastResult = Zero
    /\ hasLast = FALSE
    /\ useDegrees = FALSE
    /\ precision = -1
    /\ pc = "readOperator"
    /\ op = <<>>
    /\ numbers = <<>>
    /\ input = MaxInput
    /\ read = "none"
    /\ typed = <<>>
    /\ out = Printed("=== Advanced CLI Calculator ===", "", <<>>)
    /\ call = NoCall
    /\ wrote = NoWrite

\* The stream delivers one more line: readLine returns it with ok true.
Deliver == input > 0 /\ input' = input - 1 /\ read' = "line"

\* The stream ends: this read and every later one reports end of input, and
\* readLine returns ok false with a nil error.
EndOfInput == input' = 0 /\ read' = "eof"

\* Back at readOperator's prompt, the round's locals dead.
ToPrompt == pc' = "readOperator" /\ op' = <<>> /\ numbers' = <<>>

\* Run returns; readOperator or readNumbers has left op as its caller says.
Terminate(msg) ==
    /\ pc' = "done"
    /\ numbers' = <<>>
    /\ out' = Printed(msg, "", <<>>)
    /\ call' = NoCall
    /\ wrote' = NoWrite
    /\ UNCHANGED session

\* The read fails with an error other than end of input: readLine returns
\* ok false with the error.
ReadFails == input > 0 /\ input' = input - 1 /\ read' = "error" /\ typed' = <<>>

\* readOperator: the read reports end of input, or fails.
OperatorEOF ==
    /\ pc = "readOperator"
    /\ \/ EndOfInput /\ typed' = <<>>
       \/ ReadFails
    /\ op' = <<>>
    /\ Terminate("Goodbye.")

\* A faulty readOperator without the test for exit: the line falls through to
\* the message for an invalid operator.
OperatorExitIgnored ==
    /\ pc = "readOperator"
    /\ Deliver
    /\ \E raw \in OperatorInputs :
          /\ ToLower(readLine(raw)) = <<"e", "x", "i", "t">>
          /\ typed' = readLine(raw)
    /\ ToPrompt
    /\ out' = Printed("Invalid operator or command.", "", <<>>)
    /\ call' = NoCall
    /\ wrote' = NoWrite
    /\ UNCHANGED session

\* readOperator: the line is exit.
OperatorExit ==
    /\ pc = "readOperator"
    /\ Deliver
    /\ \E raw \in OperatorInputs :
          /\ ToLower(readLine(raw)) = <<"e", "x", "i", "t">>
          /\ typed' = readLine(raw)
    /\ op' = <<>>
    /\ Terminate("Goodbye.")

\* A faulty readOperator that looks at the rejected line again instead of
\* reading the next one.
OperatorInvalidRereads ==
    /\ pc = "readOperator"
    /\ input > 0
    /\ input' = input
    /\ read' = "line"
    /\ \E raw \in OperatorInputs :
          LET line == ToLower(readLine(raw))
          IN  /\ line # <<"e", "x", "i", "t">>
              /\ ~isCommand(line)
              /\ normalizeOperator(line) = <<>>
              /\ typed' = readLine(raw)
    /\ ToPrompt
    /\ out' = Printed("Invalid operator or command.", "", <<>>)
    /\ call' = NoCall
    /\ wrote' = NoWrite
    /\ UNCHANGED session

\* readOperator: the line is neither exit, a command nor an operator.
OperatorInvalid ==
    /\ pc = "readOperator"
    /\ Deliver
    /\ \E raw \in OperatorInputs :
          LET line == ToLower(readLine(raw))
          IN  /\ line # <<"e", "x", "i", "t">>
              /\ ~isCommand(line)
              /\ normalizeOperator(line) = <<>>
              /\ typed' = readLine(raw)
    /\ ToPrompt
    /\ out' = Printed("Invalid operator or command.", "", <<>>)
    /\ call' = NoCall
    /\ wrote' = NoWrite
    /\ UNCHANGED session

\* readOperator: the line names an operator; Run goes on to readNumbers.
OperatorChosen ==
    /\ pc = "readOperator"
    /\ Deliver
    /\ \E raw \in OperatorInputs :
          LET line == ToLower(readLine(raw))
          IN  /\ line # <<"e", "x", "i", "t">>
              /\ ~isCommand(line)
              /\ normalizeOperator(line) # <<>>
              /\ op' = normalizeOperator(line)
              /\ typed' = readLine(raw)
    /\ pc' = "readNumbers"
    /\ numbers' = <<>>
    /\ out' = Printed("Enter numbers (blank line to finish).", "",
                      IF hasLast THEN <<<<"a", "n", "s">>>> ELSE <<>>)
    /\ call' = NoCall
    /\ wrote' = NoWrite
    /\ UNCHANGED session

\* readOperator delivers the command cmd to handleCommand.
Command(cmd) ==
    /\ pc = "readOperator"
    /\ Deliver
    /\ \E raw \in OperatorInputs :
          /\ ToLower(readLine(raw)) = cmd
          /\ typed' = readLine(raw)
    /\ isCommand(cmd)
    /\ call' = NoCall
    /\ wrote' = NoWrite

CmdHelp ==
    /\ Command(<<"h", "e", "l", "p">>)
    /\ ToPrompt
    /\ out' = Printed(IF useDegrees THEN "Trig mode: degrees" ELSE "Trig mode: radians",
                      "", <<>>)
    /\ UNCHANGED session

CmdHistory ==
    /\ Command(<<"h", "i", "s", "t", "o", "r", "y">>)
    /\ ToPrompt
    /\ out' = IF history = <<>> THEN Printed("No history yet.", "", <<>>)
              ELSE Printed("History:", "", historyLines(history))
    /\ UNCHANGED session

\* A faulty degrees command that switches the mode over.
CmdDegreesToggles ==
    /\ Command(<<"d", "e", "g", "r", "e", "e", "s">>)
    /\ ToPrompt
    /\ useDegrees' = ~useDegrees
    /\ out' = Printed("Trig mode set to degrees.", "", <<>>)
    /\ UNCHANGED <<history, results, lastResult, hasLast, precision>>

CmdDegrees ==
    /\ Command(<<"d", "e", "g", "r", "e", "e", "s">>)
    /\ ToPrompt
    /\ useDegrees' = TRUE
    /\ out' = Printed("Trig mode set to degrees.", "", <<>>)
    /\ UNCHANGED <<history, results, lastResult, hasLast, precision>>

CmdRadians ==
    /\ Command(<<"r", "a", "d", "i", "a", "n", "s">>)
    /\ ToPrompt
    /\ useDegrees' = FALSE
    /\ out' = Printed("Trig mode set to radians.", "", <<>>)
    /\ UNCHANGED <<history, results, lastResult, hasLast, precision>>

CmdMode ==
    /\ Command(<<"m", "o", "d", "e">>)
    /\ ToPrompt
    /\ out' = Printed(IF useDegrees THEN "Mode: degrees" ELSE "Mode: radians", "",
                      IF hasLast THEN <<SprintfG(lastResult)>>
                      ELSE <<<<"n", "o", "n", "e">>>>)
    /\ UNCHANGED session

\* The four lines printStats prints: Count, Min, Max, Avg.
statsReport(st) ==
    Printed("Count:", "",
            << IntText(st.count), formatResult(precision, st.min),
               formatResult(precision, st.max), formatResult(precision, st.avg) >>)

CmdStats ==
    /\ Command(<<"s", "t", "a", "t", "s">>)
    /\ ToPrompt
    /\ out' = IF Len(results) = 0 THEN Printed("No results yet.", "", <<>>)
              ELSE statsReport(statsOf(results))
    /\ UNCHANGED session

CmdOps ==
    /\ Command(<<"o", "p", "s">>)
    /\ ToPrompt
    /\ out' = Printed("Operators:", "", <<>>)
    /\ UNCHANGED session

\* A faulty clear that leaves hasLast as it is.
CmdClearKeepsFlag ==
    /\ Command(<<"c", "l", "e", "a", "r">>)
    /\ ToPrompt
    /\ history' = <<>>
    /\ results' = <<>>
    /\ out' = Printed("Memory cleared.", "", <<>>)
    /\ UNCHANGED <<lastResult, hasLast, useDegrees, precision>>

\* A faulty clear that puts the precision back to auto as well.
CmdClearResetsPrecision ==
    /\ Command(<<"c", "l", "e", "a", "r">>)
    /\ ToPrompt
    /\ history' = <<>>
    /\ results' = <<>>
    /\ hasLast' = FALSE
    /\ precision' = -1
    /\ out' = Printed("Memory cleared.", "", <<>>)
    /\ UNCHANGED <<lastResult, useDegrees>>

CmdClear ==
    /\ Command(<<"c", "l", "e", "a", "r">>)
    /\ ToPrompt
    /\ history' = <<>>
    /\ results' = <<>>
    /\ hasLast' = FALSE
    /\ out' = Printed("Memory cleared.", "", <<>>)
    /\ UNCHANGED <<lastResult, useDegrees, precision>>

\* precision: setPrecision prompts and waits for its line.
CmdPrecision ==
    /\ Command(<<"p", "r", "e", "c", "i", "s", "i", "o", "n">>)
    /\ pc' = "setPrecision"
    /\ op' = <<>>
    /\ numbers' = <<>>
    /\ out' = Printed("Precision (auto or 0-10): ", "", <<>>)
    /\ UNCHANGED session

\* A faulty exportHistory without the test for an empty history.
CmdExportUnchecked ==
    /\ Command(<<"e", "x", "p", "o", "r", "t">>)
    /\ op' = <<>>
    /\ numbers' = <<>>
    /\ pc' = "exportHistory"
    /\ out' = Printed("Export file (default history.txt): ", "", <<>>)
    /\ UNCHANGED session

\* export: exportHistory refuses an empty history, else prompts and waits.
CmdExport ==
    /\ Command(<<"e", "x", "p", "o", "r", "t">>)
    /\ op' = <<>>
    /\ numbers' = <<>>
    /\ IF Len(history) = 0
       THEN /\ pc' = "readOperator"
            /\ out' = Printed("Export error:", "no history to export", <<>>)
       ELSE /\ pc' = "exportHistory"
            /\ out' = Printed("Export file (default history.txt): ", "", <<>>)
    /\ UNCHANGED session


\* setPrecision: end of input at its prompt; it returns a nil error and
\* handleCommand returns to Run's loop.
PrecisionEOF ==
    /\ pc = "setPrecision"
    /\ EndOfInput
    /\ typed' = <<>>
    /\ ToPrompt
    /\ out' = Printed("", "", <<>>)
    /\ call' = NoCall
    /\ wrote' = NoWrite
    /\ UNCHANGED session

\* setPrecision: the read fails; handleCommand prints the error.
PrecisionReadError ==
    /\ pc = "setPrecision"
    /\ ReadFails
    /\ ToPrompt
    /\ out' = Printed("Precision error:", "read error", <<>>)
    /\ call' = NoCall
    /\ wrote' = NoWrite
    /\ UNCHANGED session

\* A faulty setPrecision without the test of the range.
PrecisionLineUnchecked ==
    /\ pc = "setPrecision"
    /\ Deliver
    /\ \E raw \in PrecisionInputs :
          LET line == readLine(raw)
              value == Atoi(line)
          IN  /\ typed' = line
              /\ IF line = <<>> \/ EqualFold(line, <<"a", "u", "t", "o">>)
                 THEN /\ precision' = -1
                      /\ out' = Printed("Precision set to auto.", "", <<>>)
                 ELSE IF ~value.ok
                 THEN /\ precision' = precision
                      /\ out' = Printed("Precision error:", "invalid precision", <<>>)
                 ELSE /\ precision' = value.val
                      /\ out' = Printed("Precision set to", "", <<>>)
    /\ ToPrompt
    /\ call' = NoCall
    /\ wrote' = NoWrite
    /\ UNCHANGED <<history, results, lastResult, hasLast, useDegrees>>

\* A faulty setPrecision that prints the recorded lines anew under the
\* precision it sets.
PrecisionLineReformats ==
    /\ pc = "setPrecision"
    /\ Deliver
    /\ \E raw \in PrecisionInputs :
          LET line == readLine(raw)
              value == Atoi(line)
          IN  /\ typed' = line
              /\ IF line = <<>> \/ EqualFold(line, <<"a", "u", "t", "o">>)
                 THEN /\ precision' = -1
                      /\ out' = Printed("Precision set to auto.", "", <<>>)
                 ELSE IF ~value.ok
                 THEN /\ precision' = precision
                      /\ out' = Printed("Precision error:", "invalid precision", <<>>)
                 ELSE IF value.val < 0 \/ value.val > 10
                 THEN /\ precision' = precision
                      /\ out' = Printed("Precision error:",
                                        "precision must be between 0 and 10", <<>>)
                 ELSE /\ precision' = value.val
                      /\ out' = Printed("Precision set to", "", <<IntText(value.val)>>)
    /\ history' =
          [i \in 1..Len(history) |->
              LET eq == CHOOSE k \in 1..Len(history[i]) :
                            /\ history[i][k] = "="
                            /\ \A j \in (k + 1)..Len(history[i]) : history[i][j] # "="
              IN  SubSeq(history[i], 1, eq) \o <<" ">>
                  \o formatResult(precision', results[i])]
    /\ ToPrompt
    /\ call' = NoCall
    /\ wrote' = NoWrite
    /\ UNCHANGED <<results, lastResult, hasLast, useDegrees>>

\* setPrecision: a line is read.
PrecisionLine ==
    /\ pc = "setPrecision"
    /\ Deliver
    /\ \E raw \in PrecisionInputs :
          LET line == readLine(raw)
              value == Atoi(line)
          IN  /\ typed' = line
              /\ IF line = <<>> \/ EqualFold(line, <<"a", "u", "t", "o">>)
                 THEN /\ precision' = -1
                      /\ out' = Printed("Precision set to auto.", "", <<>>)
                 ELSE IF ~value.ok
                 THEN /\ precision' = precision
                      /\ out' = Printed("Precision error:", "invalid precision", <<>>)
                 ELSE IF value.val < 0 \/ value.val > 10
                 THEN /\ precision' = precision
                      /\ out' = Printed("Precision error:",
                                        "precision must be between 0 and 10", <<>>)
                 ELSE /\ precision' = value.val
                      /\ out' = Printed("Precision set to", "", <<IntText(value.val)>>)
    /\ ToPrompt
    /\ call' = NoCall
    /\ wrote' = NoWrite
    /\ UNCHANGED <<history, results, lastResult, hasLast, useDegrees>>

\* exportHistory after its prompt: whatever the read returns (a line, the text
\* before an end of input, or nothing with an error) is the path, history.txt
\* when empty, and os.WriteFile succeeds or fails.
ExportWrite ==
    /\ pc = "exportHistory"
    /\ \E raw \in ExportInputs, written \in BOOLEAN :
          LET line == readLine(raw)
              path == IF line = <<>>
                      THEN <<"h", "i", "s", "t", "o", "r", "y", ".", "t", "x", "t">>
                      ELSE line
          IN  /\ \/ Deliver /\ typed' = line
                 \/ EndOfInput /\ typed' = line
                 \/ ReadFails /\ raw = <<>>
              /\ wrote' = [called |-> TRUE, path |-> path,
                           content |-> Join(history), ok |-> written]
              /\ out' = IF written THEN Printed("", "", <<>>)
                        ELSE Printed("Export error:", "write failed", <<>>)
    /\ ToPrompt
    /\ call' = NoCall
    /\ UNCHANGED session

\* A faulty readNumbers that takes the end of input for the blank line and
\* hands what it has collected to calculateMany.
NumbersEOFEvaluates ==
    /\ pc = "readNumbers"
    /\ \/ EndOfInput /\ typed' = <<>>
       \/ ReadFails
    /\ pc' = "done"
    /\ numbers' = <<>>
    /\ out' = Printed("Goodbye.", "", <<>>)
    /\ call' = [called |-> TRUE, op |-> op, nums |-> numbers]
    /\ wrote' = NoWrite
    /\ UNCHANGED op
    /\ UNCHANGED session

\* readNumbers: end of input or a failed read; Run returns, its op still the
\* round's operator.
NumbersEOF ==
    /\ pc = "readNumbers"
    /\ \/ EndOfInput /\ typed' = <<>>
       \/ ReadFails
    /\ UNCHANGED op
    /\ Terminate("Goodbye.")

\* readNumbers appends the values of a line that parsed.
Collect(parsed) ==
    /\ parsed.ok
    /\ Len(numbers) + Len(parsed.vals) <= MaxOperands
    /\ numbers' = numbers \o parsed.vals

\* readNumbers: a line that is not blank and parses; its values are appended.
NumbersLine ==
    /\ pc = "readNumbers"
    /\ Deliver
    /\ \E raw \in NumberInputs :
          /\ readLine(raw) # <<>>
          /\ Collect(parseNumbersLine(readLine(raw), lastResult, hasLast))
          /\ typed' = readLine(raw)
    /\ out' = Printed("Numbers (next", "", <<IntText(Len(numbers') + 1)>>)
    /\ call' = NoCall
    /\ wrote' = NoWrite
    /\ UNCHANGED <<pc, op>>
    /\ UNCHANGED session

\* Run prints the error readNumbers returns for a line that did not parse.
Reject(parsed) ==
    /\ ~parsed.ok
    /\ out' = Printed("Input error:", parsed.err, <<>>)

\* A faulty readNumbers that reports the line and goes on collecting.
NumbersParseErrorGoesOn ==
    /\ pc = "readNumbers"
    /\ Deliver
    /\ \E raw \in NumberInputs :
          /\ readLine(raw) # <<>>
          /\ Reject(parseNumbersLine(readLine(raw), lastResult, hasLast))
          /\ typed' = readLine(raw)
    /\ call' = NoCall
    /\ wrote' = NoWrite
    /\ UNCHANGED <<pc, op, numbers>>
    /\ UNCHANGED session

\* readNumbers: a line that is not blank and does not parse; the round fails.
NumbersParseError ==
    /\ pc = "readNumbers"
    /\ Deliver
    /\ \E raw \in NumberInputs :
          /\ readLine(raw) # <<>>
          /\ Reject(parseNumbersLine(readLine(raw), lastResult, hasLast))
          /\ typed' = readLine(raw)
    /\ ToPrompt
    /\ call' = NoCall
    /\ wrote' = NoWrite
    /\ UNCHANGED session

\* readNumbers: a blank line ends the collection.
BlankLine ==
    /\ pc = "readNumbers"
    /\ Deliver
    /\ \E raw \in NumberInputs : readLine(raw) = <<>>
    /\ typed' = <<>>

\* The blank line finds the wrong number of operands; the round fails.
RoundArityError ==
    /\ BlankLine
    /\ ~validateOperandCount(op, numbers).ok
    /\ ToPrompt
    /\ out' = Printed("Input error:", validateOperandCount(op, numbers).err, <<>>)
    /\ call' = NoCall
    /\ wrote' = NoWrite
    /\ UNCHANGED session

\* Run calls calculateMany on the validated operands.
Calculate(nums) == call' = [called |-> TRUE, op |-> op, nums |-> nums]

\* Run prints the error r of calculateMany.
CalculationFails(r) ==
    /\ ~r.ok
    /\ out' = Printed("Calculation error:", r.err, <<>>)

\* A faulty Run that stores calculateMany's value before it looks at the error.
RoundCalculationErrorCommits ==
    /\ BlankLine
    /\ validateOperandCount(op, numbers).ok
    /\ Calculate(validateOperandCount(op, numbers).vals)
    /\ CalculationFails(calculateMany(op, validateOperandCount(op, numbers).vals,
                                      useDegrees))
    /\ ToPrompt
    /\ wrote' = NoWrite
    /\ lastResult' = Zero
    /\ hasLast' = TRUE
    /\ UNCHANGED <<history, results, useDegrees, precision>>

\* The blank line finds the operands in order and calculateMany fails.
RoundCalculationError ==
    /\ BlankLine
    /\ validateOperandCount(op, numbers).ok
    /\ Calculate(validateOperandCount(op, numbers).vals)
    /\ CalculationFails(calculateMany(op, validateOperandCount(op, numbers).vals,
                                      useDegrees))
    /\ ToPrompt
    /\ wrote' = NoWrite
    /\ UNCHANGED session

\* A faulty Run that records the line but not the value.
RecordHistoryOnly(nums, result, text) ==
    /\ lastResult' = result
    /\ hasLast' = TRUE
    /\ history' = Append(history, historyEntry(formatExpression(nums, op), text))
    /\ results' = results
    /\ out' = Printed("Result ->", "", <<text>>)

\* A faulty Run that keeps only the newest record.
RecordOverwrites(nums, result, text) ==
    /\ lastResult' = result
    /\ hasLast' = TRUE
    /\ history' = <<historyEntry(formatExpression(nums, op), text)>>
    /\ results' = <<result>>
    /\ out' = Printed("Result ->", "", <<text>>)

\* Run records result, whose text under the current precision is text.
Record(nums, result, text) ==
    /\ lastResult' = result
    /\ hasLast' = TRUE
    /\ history' = Append(history, historyEntry(formatExpression(nums, op), text))
    /\ results' = Append(results, result)
    /\ out' = Printed("Result ->", "", <<text>>)

\* calculateMany returned r without an error.
CalculationSucceeds(nums, r) ==
    /\ r.ok
    /\ Record(nums, r.val, formatResult(precision, r.val))

\* The blank line finds the operands in order and calculateMany succeeds: Run
\* records the result.
RoundSuccess ==
    /\ BlankLine
    /\ validateOperandCount(op, numbers).ok
    /\ Calculate(validateOperandCount(op, numbers).vals)
    /\ CalculationSucceeds(validateOperandCount(op, numbers).vals,
                           calculateMany(op, validateOperandCount(op, numbers).vals,
                                         useDegrees))
    /\ ToPrompt
    /\ wrote' = NoWrite
    /\ UNCHANGED <<useDegrees, precision>>

Next ==
    \/ OperatorEOF
    \/ OperatorExit
    \/ OperatorInvalid
    \/ OperatorChosen
    \/ CmdHelp
    \/ CmdHistory
    \/ CmdDegrees
    \/ CmdRadians
    \/ CmdMode
    \/ CmdStats
    \/ CmdOps
    \/ CmdClear
    \/ CmdPrecision
    \/ CmdExport
    \/ PrecisionEOF
    \/ PrecisionReadError
    \/ PrecisionLine
    \/ ExportWrite
    \/ NumbersEOF
    \/ NumbersLine
    \/ NumbersParseError
    \/ RoundArityError
    \/ RoundCalculationError
    \/ RoundSuccess

Spec == Init /\ [][Next]_vars

\* The most lines the stream delivers in the sessions followed to their end.
MaxLiveInput == 5

\* NewCalculator, and Run up to its first read, on a stream of MaxLiveInput lines.
LiveInit ==
    /\ history = <<>>
    /\ results = <<>>
    /\ lastResult = Zero
    /\ hasLast = FALSE
    /\ useDegrees = FALSE
    /\ precision = -1
    /\ pc = "readOperator"
    /\ op = <<>>
    /\ numbers = <<>>
    /\ input = MaxLiveInput
    /\ read = "none"
    /\ typed = <<>>
    /\ out = Printed("=== Advanced CLI Calculator ===", "", <<>>)
    /\ call = NoCall
    /\ wrote = NoWrite

\* The process runs on while it has a step to take: Run blocks only in a read,
\* and a read of a finite stream returns a line, an error or the end of input.
LiveSpec == LiveInit /\ [][Next]_vars /\ WF_vars(Next)

(***************************************************************************)
(* The stats command on longer sessions                                    *)
(***************************************************************************)
\* The most results a session holds when stats is asked for.
MaxResults == 3

\* The values the rounds recorded: typed as "1", "2", "3", "-4", "nan", "inf".
StatsValues ==
    { <<"num", 1, 1>>, <<"num", 2, 1>>, <<"num", 3, 1>>, <<"num", -4, 1>>,
      <<"nan", 0, 1>>, <<"inf", 1, 1>> }

\* The state of Run after the rounds "+", "v 0", "" for each v of rs, at the
\* operator prompt with one more line on the stream.
AfterRounds(rs) ==
    /\ results = rs
    /\ history = [i \in 1..Len(rs) |->
                     historyEntry(formatExpression(<<rs[i], Zero>>, <<"+">>),
                                  formatResult(-1, rs[i]))]
    /\ lastResult = IF rs = <<>> THEN Zero ELSE rs[Len(rs)]
    /\ hasLast = (rs # <<>>)
    /\ useDegrees = FALSE
    /\ precision = -1
    /\ pc = "readOperator"
    /\ op = <<>>
    /\ numbers = <<>>
    /\ input = 1
    /\ read = IF rs = <<>> THEN "none" ELSE "line"
    /\ typed = <<>>
    /\ out = IF rs = <<>> THEN Printed("=== Advanced CLI Calculator ===", "", <<>>)
             ELSE Printed("Result ->", "", <<formatResult(-1, rs[Len(rs)])>>)
    /\ call = IF rs = <<>> THEN NoCall
              ELSE [called |-> TRUE, op |-> <<"+">>, nums |-> <<rs[Len(rs)], Zero>>]
    /\ wrote = NoWrite

StatsInit == \E n \in 0..MaxResults : \E rs \in [1..n -> StatsValues] : AfterRounds(rs)

StatsSpec == StatsInit /\ [][CmdStats]_vars

(***************************************************************************)
(* Properties                                                              *)
(***************************************************************************)
\* The messages Run prints for a round that fails.
RoundErrors == {"Input error:", "Calculation error:"}

\* The step opens a round, or collects one more line of operands for it.
RoundGoesOn == pc' = "readNumbers"

\* The step ends a round with an error.
RoundFails == pc = "readNumbers" /\ out'.msg \in RoundErrors

\* C1: a round that fails (a token that does not parse, ans without a previous
\* result, a wrong operand count, a division or modulo by zero, a sqrt, log or
\* tan domain error) changes none of history, results, lastResult, hasLast,
\* precision and useDegrees, from the operator line that opens it to the error
\* that ends it, and the program is back at the operator prompt.
C1_FailedRoundKeepsSession ==
    [][ /\ RoundGoesOn => UNCHANGED session
        /\ RoundFails => UNCHANGED session /\ pc' = "readOperator"
      ]_vars

\* A domain error ended a round that followed a recorded result.
C1_Witness ==
    /\ pc = "readOperator"
    /\ out.msg = "Calculation error:"
    /\ out.err = "sqrt of negative number"
    /\ Len(history) = 1
    /\ hasLast
    /\ lastResult # Zero

\* C2: in every reachable state the history has as many lines as results has
\* values.
C2_HistoryAndResultsSameLength == Len(history) = Len(results)

\* Two rounds have been recorded.
C2_Witness == Len(history) = 2 /\ Len(results) = 2

\* The step ends a round with a result.
RoundSucceeds == pc = "readNumbers" /\ out'.msg = "Result ->"

\* The step is the clear command.
Clears == pc = "readOperator" /\ out'.msg = "Memory cleared."

\* C3: hasLast is false at the start, a round that succeeds makes it true, clear
\* makes it false and no other step changes it; so hasLast holds exactly when a
\* round has succeeded since the start or since the latest clear.
C3_HasLastIffSuccessSinceClear ==
    /\ hasLast = FALSE
    /\ [][ hasLast' = IF RoundSucceeds THEN TRUE
                      ELSE IF Clears THEN FALSE
                      ELSE hasLast ]_vars

\* clear has taken away the result of an earlier round.
C3_Witness ==
    /\ out.msg = "Memory cleared."
    /\ ~hasLast
    /\ lastResult # Zero

\* Spellings of the two names of the previous result.
AnsTokens ==
    { <<"a", "n", "s">>, <<"A", "N", "S">>, <<"A", "n", "s">>,
      <<"l", "a", "s", "t">>, <<"L", "a", "s", "t">>, <<"L", "A", "S", "T">> }

\* C4: in every reachable state, so after any failed rounds and any commands,
\* the token ans or last in any letter case fails with "no previous result" when
\* no round has been recorded since the start or the latest clear, and otherwise
\* yields exactly the value of the latest recorded round.
C4_AnsYieldsLatestResult ==
    \A token \in AnsTokens :
        parseNumbersLine(token, lastResult, hasLast)
          = IF Len(results) = 0
            THEN [ok |-> FALSE, vals |-> <<>>, err |-> "no previous result"]
            ELSE [ok |-> TRUE, vals |-> <<results[Len(results)]>>, err |-> ""]

\* The values the sample operand lines spell out.
TypedValues ==
    { Zero, <<"num", -4, 1>>, <<"num", 90, 1>>,
      <<"num", 2, 1>>, <<"num", 3, 1>>, <<"num", 5, 1>> }

\* A round has collected, as its only operand so far, the value of the latest
\* recorded round, which no sample line spells out.
C4_Witness ==
    /\ pc = "readNumbers"
    /\ Len(results) = 1
    /\ numbers = <<results[1]>>
    /\ results[1] \notin TypedValues

\* C5: clear empties history and results and makes hasLast false, and leaves
\* useDegrees and precision as they were.
C5_ClearKeepsModeAndPrecision ==
    [][ Clears => /\ history' = <<>>
                  /\ results' = <<>>
                  /\ hasLast' = FALSE
                  /\ useDegrees' = useDegrees
                  /\ precision' = precision ]_vars

\* clear has run after a round was recorded under a precision of 2.
C5_Witness ==
    /\ out.msg = "Memory cleared."
    /\ history = <<>>
    /\ precision = 2
    /\ lastResult # Zero

\* C6: a round that succeeds appends one line to history and one value, the
\* value calculateMany computed, to results, makes that value lastResult, and
\* changes neither useDegrees nor precision.
C6_SuccessAppendsOneRecord ==
    [][ RoundSucceeds =>
          /\ calculateMany(op, numbers, useDegrees).ok
          /\ Len(history') = Len(history) + 1
          /\ SubSeq(history', 1, Len(history)) = history
          /\ results' = Append(results, calculateMany(op, numbers, useDegrees).val)
          /\ lastResult' = calculateMany(op, numbers, useDegrees).val
          /\ hasLast'
          /\ useDegrees' = useDegrees
          /\ precision' = precision ]_vars

\* A second round has just been recorded after the first.
C6_Witness ==
    /\ out.msg = "Result ->"
    /\ Len(history) = 2
    /\ Len(results) = 2
    /\ lastResult = results[2]

\* The operand counts an operator takes.
Fits(o, n) ==
    IF o \in UnaryOperators THEN n = 1
    ELSE IF o \in {<<"-">>, <<"/">>, <<"%">>, <<"^">>} THEN n = 2
    ELSE n >= 2

ArityErrors ==
    { "this operator requires exactly one operand",
      "at least two operands required",
      "this operator supports exactly two operands" }

ParseErrors == {"invalid number", "no previous result", "empty input"}

\* C7: calculateMany is called only on the operands a round has collected, when
\* their count fits the operator (1 for sin, cos, tan, sqrt, log; 2 for -, /, %,
\* ^; 2 or more for + and *), so never on an empty list; a round whose lines all
\* parsed and whose count does not fit ends with an arity error and no call.
C7_EvaluatesOnlyFittingCounts ==
    [][ /\ call'.called =>
              /\ pc = "readNumbers"
              /\ call'.op = op
              /\ call'.nums = numbers
              /\ call'.nums # <<>>
              /\ Fits(op, Len(numbers))
        /\ ( /\ pc = "readNumbers"
             /\ pc' = "readOperator"
             /\ ~Fits(op, Len(numbers))
             /\ out'.err \notin ParseErrors )
           => /\ out'.msg = "Input error:"
              /\ out'.err \in ArityErrors
              /\ ~call'.called
      ]_vars

\* A blank line right after a binary operator ended the round with no call.
C7_Witness ==
    /\ pc = "readOperator"
    /\ out.msg = "Input error:"
    /\ out.err = "at least two operands required"
    /\ ~call.called

\* The errors calculateBinary returns for a zero divisor: "division by zero"
\* for / and "modulo by zero" for %.
ZeroDivisorErrors == {"division by zero", "modulo by zero"}

\* C8: calculateMany called for / or % (mod) on [a, 0] fails with the
\* zero-divisor error whatever a is, and the round leaves history, results,
\* lastResult and hasLast as they were.
C8_ZeroDivisorFails ==
    [][ ( /\ call'.called
          /\ call'.op \in {<<"/">>, <<"%">>}
          /\ Len(call'.nums) = 2
          /\ FEq(call'.nums[2], Zero) )
        => /\ ~calculateMany(call'.op, call'.nums, useDegrees).ok
           /\ out'.msg = "Calculation error:"
           /\ out'.err \in ZeroDivisorErrors
           /\ UNCHANGED session ]_vars

\* A round of % on a nonzero dividend and 0 has just failed.
C8_Witness ==
    /\ call.called
    /\ call.op = <<"%">>
    /\ Len(call.nums) = 2
    /\ ~FEq(call.nums[1], Zero)
    /\ FEq(call.nums[2], Zero)
    /\ out.err = "modulo by zero"

\* C9: for a binary operator, what calculateMany returns on the operands of a
\* call is the fold from the left: the first operand combined by calculateBinary
\* with each later one in order, an error ending it; and + over [2, 3, 5] is 10.
C9_BinaryIsLeftFold ==
    LET RECURSIVE FoldLeft(_, _, _)
        FoldLeft(o, nums, k) ==
            IF k = 1 THEN Ok(nums[1])
            ELSE IF FoldLeft(o, nums, k - 1).ok
                 THEN calculateBinary(o, FoldLeft(o, nums, k - 1).val, nums[k])
                 ELSE FoldLeft(o, nums, k - 1)
    IN  /\ (call.called /\ call.op \in BinaryOperators /\ call.nums # <<>>)
            => calculateMany(call.op, call.nums, useDegrees)
                 = FoldLeft(call.op, call.nums, Len(call.nums))
        /\ calculateMany(<<"+">>,
                         << <<"num", 2, 1>>, <<"num", 3, 1>>, <<"num", 5, 1>> >>,
                         useDegrees)
             = Ok(<<"num", 10, 1>>)

\* The round + over 2, 3, 5 has been recorded as 10.
C9_Witness ==
    /\ call.called
    /\ call.op = <<"+">>
    /\ call.nums = << <<"num", 2, 1>>, <<"num", 3, 1>>, <<"num", 5, 1>> >>
    /\ lastResult = <<"num", 10, 1>>
    /\ history # <<>>
    /\ history[Len(history)]
         = <<"2", " ", "+", " ", "3", " ", "+", " ", "5", " ", "=", " ", "1", "0">>

\* C10: when the read at the operator prompt or at the operand prompt reports
\* the end of input, Run returns: the operands collected are dropped,
\* calculateMany is not called and the session is as it was.
C10_EndOfInputTerminates ==
    [][ (pc \in {"readOperator", "readNumbers"} /\ read' = "eof")
        => /\ pc' = "done"
           /\ numbers' = <<>>
           /\ ~call'.called
           /\ UNCHANGED session ]_vars

\* The input ended inside a round of + that followed a recorded round.
C10_Witness ==
    /\ pc = "done"
    /\ read = "eof"
    /\ op = <<"+">>
    /\ numbers = <<>>
    /\ hasLast
    /\ Len(history) = 1

\* The step reads a line that is exit in some letter case.
ReadsExit == read' = "line" /\ ToLower(typed') = <<"e", "x", "i", "t">>

\* C11 as claimed: a line exit ends the session at whatever read takes it, the
\* operand prompt included.  The code does not do this.
C11_ExitEndsSessionAnywhere ==
    [][ ReadsExit => pc' = "done" ]_vars

\* C11 as amended: exit read at the operator prompt ends the session at once,
\* with the session state as it was; read at the operand prompt it is a token
\* that does not parse, so the round is abandoned with "invalid number", no
\* call is made, the session state is as it was and the session goes on at the
\* operator prompt.
C11_ExitEndsSessionAtOperatorPrompt ==
    [][ ReadsExit =>
          /\ pc = "readOperator" =>
                /\ pc' = "done"
                /\ out'.msg = "Goodbye."
                /\ ~call'.called
                /\ UNCHANGED session
          /\ pc = "readNumbers" =>
                /\ pc' = "readOperator"
                /\ out' = Printed("Input error:", "invalid number", <<>>)
                /\ numbers' = <<>>
                /\ ~call'.called
                /\ UNCHANGED session
      ]_vars

\* exit was read at the operand prompt and the session is back at the operator
\* prompt.
C11_Witness ==
    /\ pc = "readOperator"
    /\ read = "line"
    /\ ToLower(typed) = <<"e", "x", "i", "t">>
    /\ out.err = "invalid number"

\* The precisions the session may hold: -1 for auto, or a digit count.
Precisions == {-1} \cup (0 .. 10)

\* The step belongs to the precision command: it reads the command or the
\* value typed at its prompt.
InPrecisionCommand == pc' = "setPrecision" \/ pc = "setPrecision"

\* C12: the value line of the precision command sets precision to auto when it
\* is blank or auto in any letter case, to n when it spells an integer n with
\* 0 <= n <= 10, and otherwise prints an error and leaves precision as it was;
\* precision is auto or in 0..10 in every reachable state; and no step of the
\* command changes history, results, lastResult, hasLast or useDegrees.
C12_PrecisionCommand ==
    /\ precision \in Precisions
    /\ [][ LET Unsigned(l) ==
                   IF l # <<>> /\ l[1] \in {"+", "-"} THEN Tail(l) ELSE l
               RECURSIVE NoLeadingZeros(_)
               NoLeadingZeros(d) ==
                   IF Len(d) > 1 /\ d[1] = "0" THEN NoLeadingZeros(Tail(d)) ELSE d
               Spells(l, n) ==
                   /\ NoLeadingZeros(Unsigned(l)) = IntText(n)
                   /\ (l[1] = "-" => n = 0)
               IsAuto(l) == l = <<>> \/ ToLower(l) = <<"a", "u", "t", "o">>
           IN  /\ precision' \in Precisions
               /\ InPrecisionCommand =>
                     UNCHANGED <<history, results, lastResult, hasLast, useDegrees>>
               /\ pc' = "setPrecision" => precision' = precision
               /\ (pc = "setPrecision" /\ read' = "line") =>
                     IF IsAuto(typed')
                     THEN precision' = -1 /\ out'.msg # "Precision error:"
                     ELSE IF \E n \in 0 .. 10 : Spells(typed', n)
                     THEN /\ \A n \in 0 .. 10 : Spells(typed', n) => precision' = n
                          /\ out'.msg # "Precision error:"
                     ELSE precision' = precision /\ out'.msg = "Precision error:"
         ]_vars

\* A value out of range was refused while the precision was 2.
C12_Witness ==
    /\ pc = "readOperator"
    /\ typed = <<"1", "1">>
    /\ out.msg = "Precision error:"
    /\ out.err = "precision must be between 0 and 10"
    /\ precision = 2

\* The step reads the export command at the operator prompt.
ReadsExport ==
    /\ pc = "readOperator"
    /\ read' = "line"
    /\ ToLower(typed') = <<"e", "x", "p", "o", "r", "t">>

\* C13: os.WriteFile is called only from the export prompt and only with a
\* history that is not empty; export with an empty history prints "no history
\* to export" and is back at the operator prompt with no path read and no file
\* written; and no step of the export command changes the session state.
C13_ExportNeverWritesEmptyHistory ==
    [][ /\ wrote'.called => pc = "exportHistory" /\ history # <<>>
        /\ pc' = "exportHistory" => history # <<>>
        /\ (ReadsExport /\ history = <<>>) =>
              /\ pc' = "readOperator"
              /\ out' = Printed("Export error:", "no history to export", <<>>)
              /\ ~wrote'.called
        /\ (ReadsExport \/ pc = "exportHistory") => UNCHANGED session
      ]_vars

\* export was refused after clear had emptied a history.
C13_Witness ==
    /\ pc = "readOperator"
    /\ ToLower(typed) = <<"e", "x", "p", "o", "r", "t">>
    /\ out.err = "no history to export"
    /\ ~wrote.called
    /\ lastResult # Zero

\* The step reads the stats command at the operator prompt.
ReadsStats ==
    /\ pc = "readOperator"
    /\ read' = "line"
    /\ ToLower(typed') = <<"s", "t", "a", "t", "s">>

\* The sum of rs taken in the order recorded, from 0.
RECURSIVE SumOf(_)
SumOf(rs) ==
    IF rs = <<>> THEN Zero
    ELSE FAdd(SumOf(SubSeq(rs, 1, Len(rs) - 1)), rs[Len(rs)])

\* m is a recorded result that no recorded result is below (above, for
\* sense = -1); when no result is NaN it is at or below (above) all of them.
Extreme(m, rs, sense) ==
    /\ \E i \in 1..Len(rs) : rs[i] = m
    /\ \A j \in 1..Len(rs) :
          /\ IF sense > 0 THEN ~FLt(rs[j], m) ELSE ~FGt(rs[j], m)
          /\ (\A k \in 1..Len(rs) : rs[k][1] # "nan") =>
                IF sense > 0 THEN FLe(m, rs[j]) ELSE FLe(rs[j], m)

DomainSamples ==
    { <<"num", 4, 1>>, <<"num", 1, 2>>, <<"num", 0, 1>>, <<"num", -1, 1>>,
      <<"num", -1, 1024>>, <<"inf", 1, 1>>, <<"inf", -1, 1>>, <<"nan", 0, 1>> }

\* In either angle mode sqrt fails on the operands below zero and on no
\* other, log on those at or below zero and on no other; sqrt(4) is 2.
DomainOnSamples ==
    /\ \A v \in DomainSamples : \A deg \in BOOLEAN :
          /\ calculateMany(<<"s", "q", "r", "t">>, <<v>>, deg) =
                IF FLt(v, Zero) THEN Fail("sqrt of negative number") ELSE Ok(Sqrt(v))
          /\ calculateMany(<<"l", "o", "g">>, <<v>>, deg) =
                IF FLe(v, Zero) THEN Fail("log domain error") ELSE Ok(Log(v))
    /\ calculateMany(<<"s", "q", "r", "t">>, << <<"num", 4, 1>> >>, TRUE) = Ok(<<"num", 2, 1>>)

\* C15: a round of sqrt fails with its domain error exactly when the operand
\* is below zero, a round of log (which the line "ln" also names) exactly
\* when it is at or below zero, whatever the angle mode; the failed round
\* leaves the session as it was, and the round that succeeds records the
\* root or the logarithm of the operand itself.
C15_DomainErrors ==
    /\ DomainOnSamples
    /\ [][ /\ ( /\ pc = "readOperator"
                /\ read' = "line"
                /\ ToLower(typed') \in {<<"l", "n">>, <<"l", "o", "g">>} )
              => pc' = "readNumbers" /\ op' = <<"l", "o", "g">>
           /\ ( /\ pc = "readNumbers"
                /\ read' = "line"
                /\ typed' = <<>>
                /\ Len(numbers) = 1
                /\ op \in {<<"s", "q", "r", "t">>, <<"l", "o", "g">>} )
              => LET v == numbers[1]
                     isSqrt == op = <<"s", "q", "r", "t">>
                     fails == IF isSqrt THEN FLt(v, Zero) ELSE FLe(v, Zero)
                 IN  /\ call' = [called |-> TRUE, op |-> op, nums |-> <<v>>]
                     /\ pc' = "readOperator"
                     /\ useDegrees' = useDegrees
                     /\ fails =>
                           /\ out' = Printed("Calculation error:",
                                             IF isSqrt THEN "sqrt of negative number"
                                             ELSE "log domain error", <<>>)
                           /\ UNCHANGED session
                     /\ ~fails =>
                           /\ out'.msg = "Result ->"
                           /\ out'.err = ""
                           /\ lastResult' = (IF isSqrt THEN Sqrt(v) ELSE Log(v))
                           /\ results' = Append(results, lastResult')
                           /\ Len(history') = Len(history) + 1 ]_vars

C15_Witness ==
    /\ pc = "readOperator"
    /\ useDegrees
    /\ call = [called |-> TRUE, op |-> <<"s", "q", "r", "t">>, nums |-> << <<"num", -4, 1>> >>]
    /\ out = Printed("Calculation error:", "sqrt of negative number", <<>>)
    /\ results = <<>>

\* C16: a read that finds the end of input changes nothing in the session and
\* writes no file, whichever prompt it is made at, and the session is over
\* then or, after the precision and export prompts, at the read that follows.
C16_EndOfInputIsQuit ==
    [][ /\ read' = "eof" =>
              /\ UNCHANGED session
              /\ ~wrote'.called
              /\ ~call'.called
              /\ pc \in {"readOperator", "readNumbers"} => pc' = "done"
              /\ pc \in {"setPrecision", "exportHistory"} => pc' \in {"done", "readOperator"}
        /\ read = "eof" => pc' = "done" ]_vars

\* The end of input at the export prompt, and history.txt written all the same.
C16_Witness ==
    /\ read = "eof"
    /\ pc = "readOperator"
    /\ history # <<>>
    /\ wrote.called
    /\ wrote.path = <<"h", "i", "s", "t", "o", "r", "y", ".", "t", "x", "t">>
    /\ wrote.content = Join(history)

\* The step reads the clear command at the operator prompt.
ReadsClear ==
    /\ pc = "readOperator"
    /\ read' = "line"
    /\ ToLower(typed') = <<"c", "l", "e", "a", "r">>

\* C17: every step leaves history as it was, or appends one entry to it, or,
\* reading the clear command, empties it; a step that changes the precision
\* leaves history, and so the text of every recorded entry, as it was.
C17_HistoryAppendOnly ==
    [][ /\ \/ history' = history
           \/ /\ Len(history') = Len(history) + 1
              /\ SubSeq(history', 1, Len(history)) = history
              /\ pc = "readNumbers"
           \/ /\ history' = <<>>
              /\ ReadsClear
        /\ precision' # precision => history' = history
        /\ ReadsClear => history' = <<>> ]_vars

\* sqrt(90) recorded under auto precision, the precision then set to 2.
C17_Witness ==
    /\ precision = 2
    /\ out.msg = "Precision set to"
    /\ Len(history) = 1
    /\ history[1] = historyEntry(<<"s", "q", "r", "t", "(", "9", "0", ")">>,
                                 SprintfG(results[1]))
    /\ SprintfG(results[1]) # SprintfF(2, results[1])

\* The commands that only print.
PrintingCommands ==
    { <<"h", "e", "l", "p">>, <<"h", "i", "s", "t", "o", "r", "y">>, <<"m", "o", "d", "e">>,
      <<"s", "t", "a", "t", "s">>, <<"o", "p", "s">> }

\* C18: read at the operator prompt, help, history, mode, stats and ops
\* leave history, results, the last result, the angle mode and the precision
\* as they were; degrees sets the angle mode to degrees and radians to
\* radians, and both leave the other fields as they were.
C18_CommandFrame ==
    [][ (pc = "readOperator" /\ read' = "line") =>
          /\ ToLower(typed') \in PrintingCommands =>
                /\ UNCHANGED session
                /\ pc' = "readOperator"
                /\ ~call'.called
                /\ ~wrote'.called
          /\ ToLower(typed') = <<"d", "e", "g", "r", "e", "e", "s">> =>
                /\ useDegrees' = TRUE
                /\ pc' = "readOperator"
                /\ UNCHANGED <<history, results, lastResult, hasLast, precision>>
          /\ ToLower(typed') = <<"r", "a", "d", "i", "a", "n", "s">> =>
                /\ useDegrees' = FALSE
                /\ pc' = "readOperator"
                /\ UNCHANGED <<history, results, lastResult, hasLast, precision>> ]_vars

\* The degrees command read in a session that is in degrees already and
\* holds a record.
C18_Witness ==
    /\ pc = "readOperator"
    /\ ToLower(typed) = <<"d", "e", "g", "r", "e", "e", "s">>
    /\ out.msg = "Trig mode set to degrees."
    /\ useDegrees
    /\ history # <<>>
    /\ hasLast

\* The token tok does not parse: it is ans or last with no result to stand
\* for, or it is none of ans, last, pi, e and no number either.
FailsToParse(tok) ==
    IF ToLower(tok) \in {<<"a", "n", "s">>, <<"l", "a", "s", "t">>} THEN ~hasLast
    ELSE /\ ToLower(tok) \notin {<<"p", "i">>, <<"e">>}
         /\ ~ParseFloat(tok).ok

\* The step reads, as operands, a line with a token that does not parse.
ReadsBadToken ==
    /\ pc = "readNumbers"
    /\ read' = "line"
    /\ \E i \in 1..Len(FieldsFunc(typed')) : FailsToParse(FieldsFunc(typed')[i])

\* C19: the step that reads an operand line with a token that does not parse
\* ends the round: an input error is printed, the operands collected from
\* earlier lines and from the earlier tokens of the line are dropped, nothing
\* is calculated or recorded, and the next line is read at the operator prompt.
C19_ParseFailureEndsRound ==
    [][ ReadsBadToken =>
          /\ pc' = "readOperator"
          /\ numbers' = <<>>
          /\ op' = <<>>
          /\ out'.msg = "Input error:"
          /\ out'.err \in {"invalid number", "no previous result"}
          /\ ~call'.called
          /\ ~wrote'.called
          /\ UNCHANGED session ]_vars

\* The line "2, x", whose first token parses, has ended a round.
C19_Witness ==
    /\ pc = "readOperator"
    /\ read = "line"
    /\ typed = <<"2", ",", " ", "x">>
    /\ out = Printed("Input error:", "invalid number", <<>>)
    /\ numbers = <<>>
    /\ ~call.called

\* C20: every step of Run's loop, of readOperator's loop and of readNumbers'
\* loop takes one line (or one failed read) off the stream or finds its end;
\* once the end is found the session is done at that read or at the next;
\* and every session on a finite stream comes to be done.
C20_Terminates ==
    /\ [][ \/ input' = input - 1 /\ input > 0 /\ read' \in {"line", "error"}
           \/ input' = 0 /\ read' = "eof" ]_vars
    /\ [][ /\ (read' = "eof" /\ pc \in {"readOperator", "readNumbers"}) => pc' = "done"
           /\ read = "eof" => pc' = "done" ]_vars
    /\ [](read = "eof" => <>(pc = "done"))
    /\ <>(pc = "done")

\* The end of input found at the precision prompt: setPrecision has returned
\* and Run is back at the operator prompt, not done yet.
C20_Witness ==
    /\ read = "eof"
    /\ input = 0
    /\ pc = "readOperator"
    /\ out = Printed("", "", <<>>)
    /\ ~wrote.called
====
